---- MODULE Spec2Model ----
(***************************************************************************)
(* Model of the appointment-booking Lex fulfilment Lambda                  *)
(* (src/lambda_complete_2.py) and of the DynamoDB tables it shares with    *)
(* every other invocation: DoctorSchedule, Appointments and IdCounters.    *)
(*                                                                         *)
(* Each process is one invocation of lambda_handler (one conversational    *)
(* turn).  Invocations share nothing but the three tables; every DynamoDB  *)
(* call (scan, update_item, put_item) is one atomic step.  A store call    *)
(* may also fail: it then has no effect and raises (variable raised).      *)
(* The variable script is the position of one run of                       *)
(* src/generate_doctorSchedule.py, which clears and refills DoctorSchedule *)
(* beside the turns.                                                       *)
(*                                                                         *)
(* Python strings are sequences of one-character strings, so that          *)
(* str.lower(), begins_with, str.split, str() and [-7:] are computed.      *)
(* None and the empty string are both the empty sequence: the handler      *)
(* only ever tests slot values for truthiness.                             *)
(***************************************************************************)
EXTENDS Integers, Sequences, FiniteSets, TLC

VARIABLES schedule_table, appointments_table, id_counter_table,
          pc, event, intent, available_times, appointment_id, response,
          replayOf, raised, script

tables == <<schedule_table, appointments_table, id_counter_table>>
vars == <<schedule_table, appointments_table, id_counter_table,
          pc, event, intent, available_times, appointment_id, response,
          replayOf, raised, script>>

----------------------------------------------------------------------------
(* Bounds of the model.  Besides NumProcs, the calendar is cut to one day   *)
(* and two times a day (schedule_dates, schedule_times) and the events to   *)
(* the slot values of doctor_inputs .. confirmation_inputs; the counter     *)
(* values late in its life are sampled by issued_before.                    *)

\* number of concurrent invocations of lambda_handler
NumProcs == 2

Procs == 1..NumProcs

\* the invocation that receives an arbitrary event in SpecDialog
First == CHOOSE p \in Procs : \A q \in Procs : p <= q

----------------------------------------------------------------------------
(* Python string primitives *)

None == <<>>

Truthy(x) == x # None

ascii_uppercase ==
  <<"A", "B", "C", "D", "E", "F", "G", "H", "I", "J", "K", "L", "M",
    "N", "O", "P", "Q", "R", "S", "T", "U", "V", "W", "X", "Y", "Z">>

ascii_lowercase ==
  <<"a", "b", "c", "d", "e", "f", "g", "h", "i", "j", "k", "l", "m",
    "n", "o", "p", "q", "r", "s", "t", "u", "v", "w", "x", "y", "z">>

\* the lower-case letter of each upper-case letter
to_lower ==
  [c \in {ascii_uppercase[i] : i \in 1..Len(ascii_uppercase)} |->
     ascii_lowercase[CHOOSE i \in 1..Len(ascii_uppercase) : ascii_uppercase[i] = c]]

lower_char(c) == IF c \in DOMAIN to_lower THEN to_lower[c] ELSE c

\* str.lower()
lower(s) == [i \in 1..Len(s) |-> lower_char(s[i])]

\* DynamoDB begins_with(attribute, prefix)
begins_with(s, prefix) ==
  /\ Len(prefix) <= Len(s)
  /\ SubSeq(s, 1, Len(prefix)) = prefix

\* index of the first occurrence of the character sep in s, 0 when absent
find(s, sep) ==
  IF \E i \in 1..Len(s) : s[i] = sep
  THEN CHOOSE i \in 1..Len(s) : s[i] = sep /\ \A j \in 1..(i - 1) : s[j] # sep
  ELSE 0

RECURSIVE split(_, _)
\* str.split(sep) for a one-character separator
split(s, sep) ==
  IF find(s, sep) = 0 THEN <<s>>
  ELSE <<SubSeq(s, 1, find(s, sep) - 1)>> \o split(SubSeq(s, find(s, sep) + 1, Len(s)), sep)

digits == <<"0", "1", "2", "3", "4", "5", "6", "7", "8", "9">>

RECURSIVE str(_)
\* str(n) of a non-negative integer
str(n) == IF n < 10 THEN <<digits[n + 1]>> ELSE str(n \div 10) \o <<digits[(n % 10) + 1]>>

\* the last six characters of s
last6(s) == IF Len(s) <= 6 THEN s ELSE SubSeq(s, Len(s) - 5, Len(s))

\* s[-7:]
last7(s) == IF Len(s) <= 7 THEN s ELSE SubSeq(s, Len(s) - 6, Len(s))

\* how an f-string renders a slot value: None prints as "None"
fstr(x) == IF x = None THEN <<"N", "o", "n", "e">> ELSE x

RECURSIVE join(_, _)
\* sep.join(list)
join(sep, list) ==
  IF list = <<>> THEN <<>>
  ELSE IF Len(list) = 1 THEN list[1]
  ELSE list[1] \o sep \o join(sep, Tail(list))

\* byte order of the characters of a Date_Time sort key
key_chars == <<"-", "0", "1", "2", "3", "4", "5", "6", "7", "8", "9", ":", "_">>

ord(c) == CHOOSE i \in 1..Len(key_chars) : key_chars[i] = c

\* a < b in the byte order DynamoDB keeps a partition's sort keys in
key_less(a, b) ==
  \E i \in 1..(Len(a) + 1) :
    /\ i <= Len(b)
    /\ \A j \in 1..(i - 1) : a[j] = b[j]
    /\ (i = Len(a) + 1 \/ ord(a[i]) < ord(b[i]))

----------------------------------------------------------------------------
(* The slot calendar (src/generate_doctorSchedule.py) *)

Dr_Sarah_Jones == <<"D", "r", ".", " ", "S", "a", "r", "a", "h", " ", "J", "o", "n", "e", "s">>
Dr_Sophia_Lee == <<"D", "r", ".", " ", "S", "o", "p", "h", "i", "a", " ", "L", "e", "e">>
Dr_David_Park == <<"D", "r", ".", " ", "D", "a", "v", "i", "d", " ", "P", "a", "r", "k">>

\* weekly doctor schedule (0 = Monday, ..., 6 = Sunday)
doctor_weekdays ==
  <<[doctor |-> Dr_Sarah_Jones, working_days |-> {0, 1, 2, 3, 4}],
    [doctor |-> Dr_Sophia_Lee, working_days |-> {0, 1, 2, 3}],
    [doctor |-> Dr_David_Park, working_days |-> {1, 2, 3, 4}]>>

\* the first two of the four time slots of each day: '09:00', '10:00'
schedule_times == <<<<"0", "9", ":", "0", "0">>, <<"1", "0", ":", "0", "0">>>>

\* the days of May 2025 the model generates, with datetime.weekday():
\* Monday 2025-05-05, on which Dr. David Park does not work
schedule_dates ==
  <<[date_str |-> <<"2", "0", "2", "5", "-", "0", "5", "-", "0", "5">>, weekday |-> 0]>>

\* f"{date_str}_{time}"
date_time_key(date, time) == fstr(date) \o <<"_">> \o fstr(time)

\* the keys generate_schedule puts, each with Status 'available'
generated_keys ==
  { <<doctor_weekdays[d].doctor, date_time_key(schedule_dates[c].date_str, schedule_times[t])>> :
      <<d, c, t>> \in
        { x \in (1..Len(doctor_weekdays)) \X (1..Len(schedule_dates)) \X (1..Len(schedule_times)) :
            schedule_dates[x[2]].weekday \in doctor_weekdays[x[1]].working_days } }

RECURSIVE puts_from(_, _, _)
\* the keys generate_schedule puts from doctor d, day c, time t on, in the order of its loops
puts_from(d, c, t) ==
  IF d > Len(doctor_weekdays) THEN <<>>
  ELSE IF c > Len(schedule_dates) THEN puts_from(d + 1, 1, 1)
  ELSE IF t > Len(schedule_times) \/ schedule_dates[c].weekday \notin doctor_weekdays[d].working_days
  THEN puts_from(d, c + 1, 1)
  ELSE <<<<doctor_weekdays[d].doctor, date_time_key(schedule_dates[c].date_str, schedule_times[t])>>>>
       \o puts_from(d, c, t + 1)

\* every put_item of one run of generate_schedule
generation_order == puts_from(1, 1, 1)

generate_schedule == [k \in generated_keys |-> "available"]

----------------------------------------------------------------------------
(* Store operations of src/lambda_complete_2.py *)

RECURSIVE scan_order(_)
\* the keys of one partition in ascending sort-key order
scan_order(keys) ==
  IF keys = {} THEN <<>>
  ELSE LET k == CHOOSE x \in keys : \A y \in keys \ {x} : key_less(x[2], y[2])
       IN <<k>> \o scan_order(keys \ {k})

\* a filter without the Status condition
scan_filter_any_status(tbl, k, doctor, date) ==
  /\ k[1] = doctor
  /\ begins_with(k[2], date)

\* FilterExpression of the scan
scan_filter(tbl, k, doctor, date) ==
  /\ k[1] = doctor
  /\ begins_with(k[2], date)
  /\ tbl[k] = "available"

get_available_times(tbl, doctor, date) ==
  LET Items == scan_order({k \in DOMAIN tbl : scan_filter(tbl, k, doctor, date)})
  IN [i \in 1..Len(Items) |-> split(Items[i][2], "_")[2]]

\* an update_item without ConditionExpression
slot_condition_unconditional(tbl, key) == TRUE

\* a condition that forgets the status: attribute_exists only
slot_condition_exists_only(tbl, key) == key \in DOMAIN tbl

\* ConditionExpression of the slot update
slot_condition(tbl, key) ==
  /\ key \in DOMAIN tbl
  /\ tbl[key] = "available"

\* an update whose SET clause does not reach the Status attribute
mark_booked_not_written(tbl, key) == tbl

\* SET #status = :status; update_item writes the item whether or not it exists
mark_booked(tbl, key) ==
  [k \in DOMAIN tbl \cup {key} |-> IF k = key THEN "booked" ELSE tbl[k]]

start == 1000000

incr == 1

counter_name == "appointment_id"

\* an update that sets the counter from :start on every call
next_counter_value_from_start(tbl) == start + incr

\* SET current_value = if_not_exists(current_value, :start) + :incr
next_counter_value(tbl) ==
  (IF counter_name \in DOMAIN tbl THEN tbl[counter_name] ELSE start) + incr

update_counter(tbl) ==
  [k \in DOMAIN tbl \cup {counter_name} |->
     IF k = counter_name THEN next_counter_value(tbl) ELSE tbl[k]]

\* the value get_next_sequence returns after the update
sequence_string(tbl) == last7(str(tbl[counter_name]))

put_item(tbl, key, item) ==
  [k \in DOMAIN tbl \cup {key} |-> IF k = key THEN item ELSE tbl[k]]

----------------------------------------------------------------------------
(* lambda_handler: the event, the slot values, the responses *)

VALID_DOCTORS == <<Dr_Sarah_Jones, Dr_Sophia_Lee, Dr_David_Park>>

\* a slot is None or its interpretedValue
get_slot_value(slots, slot_name) == slots[slot_name]

\* intent.get('confirmationState', '')
confirmation_state_of(i) ==
  IF "confirmationState" \in DOMAIN i THEN i.confirmationState ELSE ""

\* any(d.lower() == doctor.lower() for d in VALID_DOCTORS)
is_valid_doctor(doctor) ==
  \E i \in 1..Len(VALID_DOCTORS) : lower(VALID_DOCTORS[i]) = lower(doctor)

\* a normalization to the name without its title, which is no valid doctor
canonical_doctor_untitled(doctor) ==
  LET d == VALID_DOCTORS[CHOOSE i \in 1..Len(VALID_DOCTORS) : lower(VALID_DOCTORS[i]) = lower(doctor)]
  IN SubSeq(d, 5, Len(d))

\* next(d for d in VALID_DOCTORS if d.lower() == doctor.lower())
canonical_doctor(doctor) ==
  VALID_DOCTORS[CHOOSE i \in 1..Len(VALID_DOCTORS) :
                  /\ lower(VALID_DOCTORS[i]) = lower(doctor)
                  /\ \A j \in 1..(i - 1) : lower(VALID_DOCTORS[j]) # lower(doctor)]

\* a normalization that is not written back to the slot
normalize_intent_not_stored(i) == i

\* slots['DoctorName']['value']['interpretedValue'] = doctor
normalize_intent(i) ==
  IF Truthy(get_slot_value(i.slots, "DoctorName"))
  THEN [i EXCEPT !.slots.DoctorName = canonical_doctor(i.slots.DoctorName)]
  ELSE i

PlainText(text, args) == <<[contentType |-> "PlainText", content |-> [text |-> text, args |-> args]]>>

ElicitSlot(slot_name, i, messages) ==
  [sessionState |-> [dialogAction |-> [type |-> "ElicitSlot", slotToElicit |-> slot_name],
                     intent |-> i],
   messages |-> messages]

Delegate(i) ==
  [sessionState |-> [dialogAction |-> [type |-> "Delegate"], intent |-> i]]

Close(i, messages) ==
  [sessionState |-> [dialogAction |-> [type |-> "Close"], intent |-> i],
   messages |-> messages]

\* a step of the handler that does not return
NoReturn == [fallthrough |-> TRUE]

Returned(r) == "sessionState" \in DOMAIN r

no_slots ==
  [DoctorName |-> None, Date |-> None, Time |-> None,
   Name |-> None, Phone |-> None, Confirmation |-> None]

\* a reset that keeps the patient's name and phone
reset_intent_keeps_patient(i) ==
  [name |-> i.name,
   slots |-> [no_slots EXCEPT !.Name = i.slots.Name, !.Phone = i.slots.Phone],
   state |-> "InProgress"]

reset_intent(i) == [name |-> i.name, slots |-> no_slots, state |-> "InProgress"]

\* the doctor validation at the head of the handler
invalid_doctor(i) ==
  /\ Truthy(get_slot_value(i.slots, "DoctorName"))
  /\ ~is_valid_doctor(get_slot_value(i.slots, "DoctorName"))

invalid_doctor_response(i) ==
  ElicitSlot("DoctorName", i,
    PlainText("Please choose from our available doctors:\n- Dr. Sarah Jones\n- Dr. Sophia Lee\n- Dr. David Park", <<>>))

\* both availability steps scan the schedule exactly when doctor and date are set
needs_scan(i) ==
  /\ Truthy(get_slot_value(i.slots, "DoctorName"))
  /\ Truthy(get_slot_value(i.slots, "Date"))

\* a step 1 that re-elicits Date without clearing it
step1_keeps_date(i, avail) ==
  LET doctor == get_slot_value(i.slots, "DoctorName")
      date == get_slot_value(i.slots, "Date")
      time == get_slot_value(i.slots, "Time")
  IN IF Truthy(doctor) /\ Truthy(date) /\ ~Truthy(time)
     THEN IF avail = <<>>
          THEN ElicitSlot("Date", i,
                 PlainText("Sorry, {doctor} has no available slots on {date}. Please choose another date.",
                           <<doctor, date>>))
          ELSE ElicitSlot("Time", i,
                 PlainText("{doctor} is available on {date} at: {', '.join(available_times)}. Please choose a time.",
                           <<doctor, date, join(<<",", " ">>, avail)>>))
     ELSE NoReturn

\* Step 1: doctor and date are provided but time is not
step1(i, avail) ==
  LET doctor == get_slot_value(i.slots, "DoctorName")
      date == get_slot_value(i.slots, "Date")
      time == get_slot_value(i.slots, "Time")
  IN IF Truthy(doctor) /\ Truthy(date) /\ ~Truthy(time)
     THEN IF avail = <<>>
          THEN ElicitSlot("Date", [i EXCEPT !.slots.Date = None],
                 PlainText("Sorry, {doctor} has no available slots on {date}. Please choose another date.",
                           <<doctor, date>>))
          ELSE ElicitSlot("Time", i,
                 PlainText("{doctor} is available on {date} at: {', '.join(available_times)}. Please choose a time.",
                           <<doctor, date, join(<<",", " ">>, avail)>>))
     ELSE NoReturn

\* a check that accepts every time
time_never_rejected(time, avail) == FALSE

\* time not in available_times
time_rejected(time, avail) == \A n \in 1..Len(avail) : avail[n] # time

\* Step 2: validate the time slot; normalized_time is computed and never used,
\* the test is on the time as sent
step2(i, avail) ==
  LET doctor == get_slot_value(i.slots, "DoctorName")
      date == get_slot_value(i.slots, "Date")
      time == get_slot_value(i.slots, "Time")
  IN IF Truthy(doctor) /\ Truthy(date) /\ Truthy(time) /\ time_rejected(time, avail)
     THEN ElicitSlot("Time", i,
            PlainText("Sorry, {time} is not available. {doctor} is available on {date} at: {', '.join(available_times)}. Please choose one of these times.",
                      <<time, doctor, date, join(<<",", " ">>, avail)>>))
     ELSE NoReturn

\* Name and Phone asked outside the block of step 2
step3_unguarded(i) ==
  IF ~Truthy(get_slot_value(i.slots, "Name"))
  THEN ElicitSlot("Name", i, PlainText("May I know your name?", <<>>))
  ELSE IF ~Truthy(get_slot_value(i.slots, "Phone"))
  THEN ElicitSlot("Phone", i, PlainText("Could you please provide your phone number?", <<>>))
  ELSE NoReturn

\* Step 3: ask for Name and Phone, inside the block of step 2
step3(i) ==
  LET doctor == get_slot_value(i.slots, "DoctorName")
      date == get_slot_value(i.slots, "Date")
      time == get_slot_value(i.slots, "Time")
      name == get_slot_value(i.slots, "Name")
      phone == get_slot_value(i.slots, "Phone")
  IN IF Truthy(doctor) /\ Truthy(date) /\ Truthy(time)
     THEN IF ~Truthy(name)
          THEN ElicitSlot("Name", i, PlainText("May I know your name?", <<>>))
          ELSE IF ~Truthy(phone)
          THEN ElicitSlot("Phone", i, PlainText("Could you please provide your phone number?", <<>>))
          ELSE NoReturn
     ELSE NoReturn

\* Step 4: ask the user to confirm when all slots are filled
step4(i) ==
  LET doctor == get_slot_value(i.slots, "DoctorName")
      date == get_slot_value(i.slots, "Date")
      time == get_slot_value(i.slots, "Time")
      name == get_slot_value(i.slots, "Name")
      phone == get_slot_value(i.slots, "Phone")
      confirmation == get_slot_value(i.slots, "Confirmation")
  IN IF /\ Truthy(doctor) /\ Truthy(date) /\ Truthy(time) /\ Truthy(name) /\ Truthy(phone)
        /\ ~Truthy(confirmation)
     THEN ElicitSlot("Confirmation", i,
            PlainText("Please confirm your booking details:\nDoctor: {doctor}\nDate: {date}\nTime: {time}\nName: {name}\nPhone: {phone}\nIs this correct?",
                      <<doctor, date, time, name, phone>>))
     ELSE NoReturn

\* a step 5 that only handles the negation
step5_no_only(i) ==
  LET confirmation == get_slot_value(i.slots, "Confirmation")
  IN IF Truthy(confirmation) /\ lower(confirmation) = <<"n", "o">>
     THEN ElicitSlot("DoctorName", reset_intent(i),
            PlainText("Okay, let's start over. Which doctor would you like to book an appointment with?", <<>>))
     ELSE NoReturn

\* Step 5: handle the confirmation response
step5(i) ==
  LET confirmation == get_slot_value(i.slots, "Confirmation")
  IN IF Truthy(confirmation)
     THEN IF lower(confirmation) = <<"n", "o">>
          THEN ElicitSlot("DoctorName", reset_intent(i),
                 PlainText("Okay, let's start over. Which doctor would you like to book an appointment with?", <<>>))
          ELSE IF lower(confirmation) = <<"y", "e", "s">>
          THEN Delegate(i)
          ELSE NoReturn
     ELSE NoReturn

\* Step 6: handle the built-in confirmation denial
step6(i) ==
  IF confirmation_state_of(i) = "Denied"
  THEN ElicitSlot("DoctorName", reset_intent(i),
         PlainText("Your booking was canceled. Which doctor would you like to book with?", <<>>))
  ELSE NoReturn

\* a guard of the booking step that does not look at the invocation source
reaches_booking_any_source(i, invocation_source) ==
  confirmation_state_of(i) = "Confirmed"

\* Step 7: the guard of the final fulfillment
reaches_booking(i, invocation_source) ==
  /\ invocation_source = "FulfillmentCodeHook"
  /\ confirmation_state_of(i) = "Confirmed"

\* steps 1 to 6 in the order of the code: the first step that returns wins
dialog_steps(i, avail) ==
  IF Returned(step1(i, avail)) THEN step1(i, avail)
  ELSE IF Returned(step2(i, avail)) THEN step2(i, avail)
  ELSE IF Returned(step3(i)) THEN step3(i)
  ELSE IF Returned(step4(i)) THEN step4(i)
  ELSE IF Returned(step5(i)) THEN step5(i)
  ELSE step6(i)

datetime_key(i) == date_time_key(get_slot_value(i.slots, "Date"), get_slot_value(i.slots, "Time"))

slot_key(i) == <<get_slot_value(i.slots, "DoctorName"), datetime_key(i)>>

appointment_item(i, id) ==
  [AppointmentId |-> id,
   DoctorName |-> get_slot_value(i.slots, "DoctorName"),
   Date |-> get_slot_value(i.slots, "Date"),
   Time |-> get_slot_value(i.slots, "Time"),
   Name |-> get_slot_value(i.slots, "Name"),
   Phone |-> get_slot_value(i.slots, "Phone"),
   Status |-> "confirmed"]

fulfilled_response(i, id) ==
  Close([name |-> i.name, slots |-> i.slots, state |-> "Fulfilled"],
        PlainText("Appointment confirmed!\nID: {appointment_id}\nDoctor: {doctor}\nDate: {date}\nTime: {time}",
                  <<id, get_slot_value(i.slots, "DoctorName"), get_slot_value(i.slots, "Date"),
                    get_slot_value(i.slots, "Time")>>))

conflict_response(i) ==
  Close(i, PlainText("Sorry, that time slot was just booked by someone else. Please try another time.", <<>>))

----------------------------------------------------------------------------
(* The events the conversational layer sends *)

intent_of(slots, invocation_source, confirmation_state) ==
  [name |-> "BookAppointment",
   slots |-> slots,
   state |-> IF invocation_source = "FulfillmentCodeHook" THEN "ReadyForFulfillment" ELSE "InProgress",
   confirmationState |-> confirmation_state]

event_of(slots, invocation_source, confirmation_state) ==
  [sessionState |-> [intent |-> intent_of(slots, invocation_source, confirmation_state)],
   invocationSource |-> invocation_source]

doctor_inputs ==
  {None, Dr_Sarah_Jones,
   <<"d", "r", ".", " ", "s", "a", "r", "a", "h", " ", "j", "o", "n", "e", "s">>,
   <<"D", "r", ".", " ", "W", "h", "o">>}

date_inputs ==
  {None, <<"2", "0", "2", "5", "-", "0", "5", "-", "0", "5">>,
   <<"2", "0", "2", "5", "-", "0", "5", "-", "0", "6">>}

time_inputs == {None, <<"0", "9", ":", "0", "0">>, <<"1", "3", ":", "0", "0">>}

name_inputs == {None, <<"A", "n", "n">>}

phone_inputs == {None, <<"5", "5", "5">>}

confirmation_inputs ==
  {None, <<"y", "e", "s">>, <<"Y", "E", "S">>, <<"N", "o">>, <<"o", "k">>}

slot_inputs ==
  [DoctorName : doctor_inputs, Date : date_inputs, Time : time_inputs,
   Name : name_inputs, Phone : phone_inputs, Confirmation : confirmation_inputs]

\* every event of the dialog specification
Events ==
  { event_of(s, src, cs) :
      s \in slot_inputs,
      src \in {"DialogCodeHook", "FulfillmentCodeHook"},
      cs \in {"None", "Confirmed", "Denied"} }

\* the fulfillment turns that race in the concurrent specification
FulfillmentEvents ==
  { event_of(s, "FulfillmentCodeHook", "Confirmed") :
      s \in [DoctorName : doctor_inputs \ {None, <<"D", "r", ".", " ", "W", "h", "o">>},
             Date : date_inputs \ {<<"2", "0", "2", "5", "-", "0", "5", "-", "0", "6">>},
             Time : {schedule_times[n] : n \in 1..Len(schedule_times)},
             Name : name_inputs \ {None},
             Phone : phone_inputs \ {None},
             Confirmation : {<<"y", "e", "s">>, <<"o", "k">>}] }

----------------------------------------------------------------------------
(* The state machine: one process per invocation of lambda_handler *)

\* the outermost handler: except Exception
apology_response(i) ==
  Close(i, PlainText("Something went wrong. Please try again later.", <<>>))

\* what a failing store call raises: a botocore ClientError (throttling, access
\* denied, ...) or an exception that is no ClientError (no connection, ...)
store_exceptions == {"ClientError", "EndpointConnectionError"}

\* the handlers around the booking block: except ClientError, then except Exception
booking_except_response(i, exception) ==
  IF exception = "ClientError" THEN conflict_response(i) ELSE apology_response(i)

NoEvent == [idle |-> TRUE]

\* no store call of the invocation has raised
NoException == [call |-> "", exception |-> ""]

\* generate_doctorSchedule.py is not running
script_idle == [pc |-> "idle", todo |-> <<>>]

\* generate_schedule has returned
script_done == [pc |-> "done", todo |-> <<>>]

idle_processes ==
  /\ pc = [p \in Procs |-> "idle"]
  /\ event = [p \in Procs |-> NoEvent]
  /\ intent = [p \in Procs |-> NoEvent]
  /\ available_times = [p \in Procs |-> <<>>]
  /\ appointment_id = [p \in Procs |-> None]
  /\ response = [p \in Procs |-> NoReturn]
  /\ replayOf = [p \in Procs |-> 0]
  /\ raised = [p \in Procs |-> NoException]
  /\ script = script_idle

\* the tables after generate_schedule, before any booking
Init ==
  /\ schedule_table = generate_schedule
  /\ appointments_table = <<>>
  /\ id_counter_table = <<>>
  /\ idle_processes

\* the handler returns r
Return(p, r) ==
  /\ pc' = [pc EXCEPT ![p] = "done"]
  /\ response' = [response EXCEPT ![p] = r]

\* the handler from step 1 on, with the availability list of this turn
Continue(p, i, avail) ==
  IF Returned(dialog_steps(i, avail))
  THEN Return(p, dialog_steps(i, avail))
  ELSE IF reaches_booking(i, event'[p].invocationSource)
  THEN pc' = [pc EXCEPT ![p] = "update_item"] /\ UNCHANGED response
  ELSE Return(p, Delegate(i))

\* lines 50-85: read the event, validate and normalize the doctor
Begin(p, e, parent) ==
  /\ pc[p] = "idle"
  /\ event' = [event EXCEPT ![p] = e]
  /\ replayOf' = [replayOf EXCEPT ![p] = parent]
  /\ UNCHANGED <<tables, available_times, appointment_id, raised, script>>
  /\ IF invalid_doctor(e.sessionState.intent)
     THEN /\ intent' = [intent EXCEPT ![p] = e.sessionState.intent]
          /\ Return(p, invalid_doctor_response(e.sessionState.intent))
     ELSE /\ intent' = [intent EXCEPT ![p] = normalize_intent(e.sessionState.intent)]
          /\ IF needs_scan(intent'[p])
             THEN pc' = [pc EXCEPT ![p] = "scan"] /\ UNCHANGED response
             ELSE Continue(p, intent'[p], <<>>)

\* a fresh turn with an event of the set E
Turn(p, E) == pc[p] = "idle" /\ \E e \in E : Begin(p, e, 0)

\* the conversational layer sends the state an elicitation returned back in
Replay(q, p) ==
  /\ p # q
  /\ pc[p] = "done"
  /\ response[p].sessionState.dialogAction.type = "ElicitSlot"
  /\ Begin(q, [sessionState |-> [intent |-> response[p].sessionState.intent],
               invocationSource |-> event[p].invocationSource], p)

\* get_available_times: the scan of DoctorSchedule, then steps 1 to 7
Scan(p) ==
  /\ pc[p] = "scan"
  /\ available_times' = [available_times EXCEPT ![p] =
       get_available_times(schedule_table, get_slot_value(intent[p].slots, "DoctorName"),
                           get_slot_value(intent[p].slots, "Date"))]
  /\ UNCHANGED <<tables, event, intent, appointment_id, replayOf, raised, script>>
  /\ Continue(p, intent[p], available_times'[p])

\* schedule_table.update_item with the ConditionExpression; ClientError when it fails
UpdateItem(p) ==
  /\ pc[p] = "update_item"
  /\ UNCHANGED <<appointments_table, id_counter_table, event, intent, available_times,
                 appointment_id, replayOf, raised, script>>
  /\ IF slot_condition(schedule_table, slot_key(intent[p]))
     THEN /\ schedule_table' = mark_booked(schedule_table, slot_key(intent[p]))
          /\ pc' = [pc EXCEPT ![p] = "get_next_sequence"]
          /\ UNCHANGED response
     ELSE /\ UNCHANGED schedule_table
          /\ Return(p, conflict_response(intent[p]))

\* get_next_sequence: one atomic update of the counter record
GetNextSequence(p) ==
  /\ pc[p] = "get_next_sequence"
  /\ id_counter_table' = update_counter(id_counter_table)
  /\ appointment_id' = [appointment_id EXCEPT ![p] = sequence_string(id_counter_table')]
  /\ pc' = [pc EXCEPT ![p] = "put_item"]
  /\ UNCHANGED <<schedule_table, appointments_table, event, intent, available_times,
                 response, replayOf, raised, script>>

\* appointments_table.put_item, then the Fulfilled response
PutItem(p) ==
  /\ pc[p] = "put_item"
  /\ appointments_table' = put_item(appointments_table, appointment_id[p],
                                    appointment_item(intent[p], appointment_id[p]))
  /\ Return(p, fulfilled_response(intent[p], appointment_id[p]))
  /\ UNCHANGED <<schedule_table, id_counter_table, event, intent, available_times,
                 appointment_id, replayOf, raised, script>>

Next ==
  \E p \in Procs :
    \/ Turn(p, FulfillmentEvents)
    \/ Scan(p)
    \/ UpdateItem(p)
    \/ GetNextSequence(p)
    \/ PutItem(p)

\* concurrent fulfillment turns on the freshly generated schedule
Spec == Init /\ [][Next]_vars

----------------------------------------------------------------------------
(* The dialog specification: one turn on any store the bookings can leave *)

----------------------------------------------------------------------------
(* Store calls that fail: the call has no effect and raises *)

\* the call of p raises x and the handler that catches it returns r
Raise(p, call, x, r) ==
  /\ raised' = [raised EXCEPT ![p] = [call |-> call, exception |-> x]]
  /\ Return(p, r)
  /\ UNCHANGED <<tables, event, intent, available_times, appointment_id, replayOf, script>>

\* schedule_table.scan raises inside get_available_times, outside the booking try
ScanRaises(p) ==
  /\ pc[p] = "scan"
  /\ \E x \in store_exceptions : Raise(p, "scan", x, apology_response(intent[p]))

\* schedule_table.update_item raises for another reason than its condition
UpdateItemRaises(p) ==
  /\ pc[p] = "update_item"
  /\ \E x \in store_exceptions :
       Raise(p, "update_item", x, booking_except_response(intent[p], x))

\* id_counter_table.update_item raises inside get_next_sequence
GetNextSequenceRaises(p) ==
  /\ pc[p] = "get_next_sequence"
  /\ \E x \in store_exceptions :
       Raise(p, "get_next_sequence", x, booking_except_response(intent[p], x))

\* appointments_table.put_item raises
PutItemRaises(p) ==
  /\ pc[p] = "put_item"
  /\ \E x \in store_exceptions :
       Raise(p, "put_item", x, booking_except_response(intent[p], x))

\* the fulfillment turns that reach the booking step, for a slot of the schedule or for none
BookingStepEvents ==
  { e \in FulfillmentEvents :
      /\ e.sessionState.intent.slots.DoctorName = Dr_Sarah_Jones
      /\ e.sessionState.intent.slots.Confirmation = <<"o", "k">> }

NextFail ==
  \/ \E p \in Procs :
       \/ Turn(p, BookingStepEvents)
       \/ Scan(p)
       \/ UpdateItem(p)
       \/ GetNextSequence(p)
       \/ PutItem(p)
       \/ ScanRaises(p)
       \/ UpdateItemRaises(p)
       \/ GetNextSequenceRaises(p)
       \/ PutItemRaises(p)

\* concurrent fulfillment turns whose store calls may fail
SpecFail == Init /\ [][NextFail]_vars

----------------------------------------------------------------------------
(* Schedule maintenance: clear_schedule and generate_schedule of           *)
(* src/generate_doctorSchedule.py, running beside the booking turns         *)

RECURSIVE table_scan(_, _)
\* doctor_table.scan(): the keys of the table, partition after partition from doctor d on
table_scan(tbl, d) ==
  IF d > Len(doctor_weekdays)
  THEN scan_order({k \in DOMAIN tbl : \A n \in 1..Len(doctor_weekdays) : k[1] # doctor_weekdays[n].doctor})
  ELSE scan_order({k \in DOMAIN tbl : k[1] = doctor_weekdays[d].doctor}) \o table_scan(tbl, d + 1)

\* batch.delete_item for each scanned item
delete_items(tbl, keys) ==
  [k \in DOMAIN tbl \ {keys[n] : n \in 1..Len(keys)} |-> tbl[k]]

\* a put that leaves an existing item as it is
put_available_if_absent(tbl, key) ==
  IF key \in DOMAIN tbl THEN tbl ELSE put_item(tbl, key, "available")

\* doctor_table.put_item(Item={..., 'Status': 'available'})
put_available(tbl, key) == put_item(tbl, key, "available")

\* the script steps touch nothing but DoctorSchedule
ScriptStep ==
  UNCHANGED <<appointments_table, id_counter_table, pc, event, intent, available_times,
              appointment_id, response, replayOf, raised>>

\* clear_schedule: scan = doctor_table.scan()
ClearScan ==
  /\ script.pc = "idle"
  /\ script' = [pc |-> "clear", todo |-> table_scan(schedule_table, 1)]
  /\ UNCHANGED schedule_table
  /\ ScriptStep

\* clear_schedule: the batch writer deletes the scanned items when its block ends;
\* then __main__ calls generate_schedule
ClearDelete ==
  /\ script.pc = "clear"
  /\ schedule_table' = delete_items(schedule_table, script.todo)
  /\ script' = [pc |-> "generate", todo |-> generation_order]
  /\ ScriptStep

\* the puts generate_schedule still has to make
remaining_puts == IF script.pc = "generate" THEN script.todo ELSE generation_order

\* generate_schedule, called by __main__ after clear_schedule or on its own:
\* the next put_item of its loops
GeneratePut ==
  /\ script.pc \in {"idle", "generate"}
  /\ schedule_table' = put_available(schedule_table, Head(remaining_puts))
  /\ script' = IF Tail(remaining_puts) = <<>> THEN script_done
               ELSE [pc |-> "generate", todo |-> Tail(remaining_puts)]
  /\ ScriptStep

\* the fulfillment turns for the slots of Dr. Sarah Jones
RebookingEvents ==
  { e \in FulfillmentEvents :
      /\ e.sessionState.intent.slots.DoctorName = Dr_Sarah_Jones
      /\ e.sessionState.intent.slots.Date # None
      /\ e.sessionState.intent.slots.Confirmation = <<"o", "k">> }

NextMaintenance ==
  \/ \E p \in Procs :
       \/ Turn(p, RebookingEvents)
       \/ Scan(p)
       \/ UpdateItem(p)
       \/ GetNextSequence(p)
       \/ PutItem(p)
  \/ ClearScan
  \/ ClearDelete
  \/ GeneratePut

\* fulfillment turns beside one run of the maintenance script
SpecMaintenance == Init /\ [][NextMaintenance]_vars

\* the slots of a completed booking turn for the slot k
booked_slots(k) ==
  [DoctorName |-> k[1], Date |-> split(k[2], "_")[1], Time |-> split(k[2], "_")[2],
   Name |-> <<"B", "o", "b">>, Phone |-> <<"5", "5", "0">>, Confirmation |-> <<"o", "k">>]

\* the three tables after one more successful booking turn, for the slot k
booked(T, k) ==
  LET counter == update_counter(T[3])
      id == sequence_string(counter)
  IN <<mark_booked(T[1], k),
       put_item(T[2], id, appointment_item([slots |-> booked_slots(k)], id)),
       counter>>

RECURSIVE after_bookings(_)
\* the tables after successful booking turns for the slots in B
after_bookings(B) ==
  IF B = {} THEN <<generate_schedule, <<>>, <<>>>>
  ELSE LET k == CHOOSE x \in B : TRUE
       IN booked(after_bookings(B \ {k}), k)

InitDialog ==
  /\ \E B \in SUBSET generated_keys :
       /\ schedule_table = after_bookings(B)[1]
       /\ appointments_table = after_bookings(B)[2]
       /\ id_counter_table = after_bookings(B)[3]
  /\ idle_processes

NextDialog ==
  \/ Turn(First, Events)
  \/ \E p \in Procs \ {First} : Replay(p, p - 1)
  \/ \E p \in Procs :
       \/ Scan(p)
       \/ UpdateItem(p)
       \/ GetNextSequence(p)
       \/ PutItem(p)

\* a turn with any event, then the turns that re-send what it returned
SpecDialog == InitDialog /\ [][NextDialog]_vars

----------------------------------------------------------------------------
(* Vocabulary of the claims *)

Slot(p, slot_name) == get_slot_value(intent[p].slots, slot_name)

Done(p) == pc[p] = "done"

\* the conditional update of p's turn succeeded
Succeeded(p) ==
  \/ pc[p] \in {"get_next_sequence", "put_item"}
  \/ /\ Done(p)
     /\ response[p].sessionState.dialogAction.type = "Close"
     /\ response[p].sessionState.intent.state = "Fulfilled"

\* p's turn ended with the slot-conflict message
Conflicted(p) ==
  /\ Done(p)
  /\ response[p].sessionState.dialogAction.type = "Close"
  /\ response[p].messages[1].content.text =
       "Sorry, that time slot was just booked by someone else. Please try another time."

\* the scan of p's turn listed the time p asks for
SawAvailable(p) ==
  /\ pc[p] \notin {"idle", "scan"}
  /\ needs_scan(intent[p])
  /\ \E n \in 1..Len(available_times[p]) : available_times[p][n] = Slot(p, "Time")

\* p reached the booking step for the slot k, which its scan had listed, and made its update call
Contender(p, k) ==
  /\ SawAvailable(p)
  /\ slot_key(intent[p]) = k
  /\ Succeeded(p) \/ Conflicted(p)

----------------------------------------------------------------------------
(* C1: of the concurrent fulfillment turns that reach the booking step for  *)
(* the same slot while it is available, exactly one makes the transition    *)
(* from available to booked and the others end with the conflict message:   *)
(* two such turns never both succeed and never both fail.                   *)
C1_ExactlyOneWins ==
  \A k \in generated_keys :
    LET C == {p \in Procs : Contender(p, k)}
    IN C # {} =>
         /\ Cardinality({p \in C : Succeeded(p)}) = 1
         /\ \A p \in C : ~Succeeded(p) => Conflicted(p)
         /\ schedule_table[k] = "booked"

C1_Witness ==
  \E p, q \in Procs :
    /\ p # q
    /\ \E k \in generated_keys : Contender(p, k) /\ Contender(q, k)
    /\ Done(p) /\ Succeeded(p)
    /\ Conflicted(q)

(* C2: in every reachable state a slot is booked if and only if exactly one *)
(* Appointment record exists for its doctor, date and time.                 *)
AppointmentsFor(k) ==
  {id \in DOMAIN appointments_table :
     /\ appointments_table[id].DoctorName = k[1]
     /\ date_time_key(appointments_table[id].Date, appointments_table[id].Time) = k[2]}

\* C2: a slot is booked if and only if exactly one Appointment exists for it
C2_BookedIffOneAppointment ==
  \A k \in DOMAIN schedule_table :
    schedule_table[k] = "booked" <=> Cardinality(AppointmentsFor(k)) = 1

(* C3: the values get_next_sequence has returned to the concurrent callers  *)
(* are pairwise distinct and are exactly start+1 .. start+N for the N calls *)
(* made so far, and the counter record has advanced by one per call.        *)
Callers == {p \in Procs : appointment_id[p] # None}

\* C3: the returned values are distinct and are start+1 .. start+N; the counter is start+N
C3_DistinctContiguous ==
  /\ \A p, q \in Callers : p # q => appointment_id[p] # appointment_id[q]
  /\ {appointment_id[p] : p \in Callers} = {str(start + n) : n \in 1..Cardinality(Callers)}
  /\ IF Callers = {}
     THEN counter_name \notin DOMAIN id_counter_table
     ELSE id_counter_table[counter_name] = start + Cardinality(Callers)

C3_Witness ==
  /\ Cardinality(Callers) >= 2
  /\ \E p, q \in Callers : appointment_id[p] = str(start + 1) /\ appointment_id[q] = str(start + 2)

----------------------------------------------------------------------------
(* Vocabulary of the dialog claims: the event as sent, the response *)

Sent(p, slot_name) == get_slot_value(event[p].sessionState.intent.slots, slot_name)

SentConfirmationState(p) == confirmation_state_of(event[p].sessionState.intent)

Action(p) == response[p].sessionState.dialogAction

ReturnedIntent(p) == response[p].sessionState.intent

Elicits(p, slot_name) ==
  /\ Done(p)
  /\ Action(p).type = "ElicitSlot"
  /\ Action(p).slotToElicit = slot_name

Text(p) == response[p].messages[1].content.text

Args(p) == response[p].messages[1].content.args

InList(x, list) == \E n \in 1..Len(list) : list[n] = x

SentDoctorValid(p) ==
  \E n \in 1..Len(VALID_DOCTORS) : lower(VALID_DOCTORS[n]) = lower(Sent(p, "DoctorName"))

FiveSent(p) ==
  /\ Sent(p, "DoctorName") # None /\ Sent(p, "Date") # None /\ Sent(p, "Time") # None
  /\ Sent(p, "Name") # None /\ Sent(p, "Phone") # None

SaysYes(p) == lower(Sent(p, "Confirmation")) = <<"y", "e", "s">>

SaysNo(p) == lower(Sent(p, "Confirmation")) = <<"n", "o">>

\* the scan of p's turn listed the time sent
TimeListed(p) == InList(Sent(p, "Time"), available_times[p])

(* C4: the happy path -- valid doctor, date, a time in the availability    *)
(* list, name, phone, Confirmation "yes", FulfillmentCodeHook and Confirmed *)
(* -- ends with Close/Fulfilled, a message carrying the new reference       *)
(* number, doctor, date and time, the slot booked and one Appointment.      *)
HappyPath(p) ==
  /\ FiveSent(p) /\ SentDoctorValid(p)
  /\ Sent(p, "Confirmation") = <<"y", "e", "s">>
  /\ event[p].invocationSource = "FulfillmentCodeHook"
  /\ SentConfirmationState(p) = "Confirmed"
  /\ TimeListed(p)

\* C4: the happy-path turn ends Fulfilled with the reference number, the slot booked, one Appointment
C4_HappyPathBooks ==
  \A p \in Procs :
    (Done(p) /\ HappyPath(p)) =>
      /\ Action(p).type = "Close"
      /\ ReturnedIntent(p).state = "Fulfilled"
      /\ appointment_id[p] # None
      /\ Args(p) = <<appointment_id[p], Slot(p, "DoctorName"), Sent(p, "Date"), Sent(p, "Time")>>
      /\ schedule_table[slot_key(intent[p])] = "booked"
      /\ Cardinality(AppointmentsFor(slot_key(intent[p]))) = 1

(* C5: a fulfillment turn with all five fields and Confirmation "yes" whose *)
(* slot is already booked when the turn scans the schedule.  As claimed:    *)
(* it returns the slot-conflict message.  As the code has it: the time      *)
(* validation of step 2 answers first, with ElicitSlot Time and the         *)
(* "not available" message listing the current availability.                *)
SlotAlreadyBooked(p) ==
  /\ FiveSent(p) /\ SentDoctorValid(p)
  /\ Sent(p, "Confirmation") = <<"y", "e", "s">>
  /\ event[p].invocationSource = "FulfillmentCodeHook"
  /\ slot_key(intent[p]) \in DOMAIN schedule_table
  /\ schedule_table[slot_key(intent[p])] = "booked"
  /\ ~TimeListed(p)

\* C5, as claimed: the turn on an already booked slot returns the conflict message
C5_ConflictMessage ==
  \A p \in Procs : (Done(p) /\ SlotAlreadyBooked(p)) => Conflicted(p)

\* C5, amended: the turn on an already booked slot re-elicits Time with the availability list
C5_TimeReElicited ==
  \A p \in Procs :
    (Done(p) /\ SlotAlreadyBooked(p)) =>
      /\ Elicits(p, "Time")
      /\ Text(p) = "Sorry, {time} is not available. {doctor} is available on {date} at: {', '.join(available_times)}. Please choose one of these times."
      /\ Args(p) = <<Sent(p, "Time"), Slot(p, "DoctorName"), Sent(p, "Date"),
                     join(<<",", " ">>, available_times[p])>>
      /\ appointment_id[p] = None

C5_Witness ==
  \E p \in Procs : Done(p) /\ SlotAlreadyBooked(p) /\ SentConfirmationState(p) = "Confirmed"

(* C6: when the conditional slot update of the booking step fails, because  *)
(* the slot is missing or is not available, that step ends the turn with    *)
(* the conflict message and changes none of the three tables: no            *)
(* Appointment is written and no sequence number is consumed.               *)
UpdateFails(p) ==
  /\ pc[p] = "update_item"
  /\ pc'[p] # "update_item"
  /\ \/ slot_key(intent[p]) \notin DOMAIN schedule_table
     \/ schedule_table[slot_key(intent[p])] # "available"

\* C6: a failed conditional update changes no table, issues no id and ends the turn in conflict
C6_FailedUpdateChangesNothing ==
  [][\A p \in Procs :
       UpdateFails(p) =>
         /\ schedule_table' = schedule_table
         /\ appointments_table' = appointments_table
         /\ id_counter_table' = id_counter_table
         /\ appointment_id'[p] = None
         /\ Conflicted(p)']_vars

C6_Witness ==
  \E p \in Procs :
    /\ Conflicted(p)
    /\ slot_key(intent[p]) \in DOMAIN schedule_table
    /\ schedule_table[slot_key(intent[p])] = "booked"
    /\ appointment_id[p] = None

(* C7: negation resets.  As claimed: every turn whose Confirmation field is *)
(* "no", or whose confirmation phase is Denied, returns all six fields      *)
(* unset, state InProgress, the same intent name and ElicitSlot DoctorName, *)
(* whatever the fields hold.  As the code has it: only when no earlier step *)
(* of the handler answers the turn.                                         *)
ResetReturned(p) ==
  /\ Elicits(p, "DoctorName")
  /\ \A s \in {"DoctorName", "Date", "Time", "Name", "Phone", "Confirmation"} :
       ReturnedIntent(p).slots[s] = None
  /\ DOMAIN ReturnedIntent(p).slots = {"DoctorName", "Date", "Time", "Name", "Phone", "Confirmation"}
  /\ ReturnedIntent(p).state = "InProgress"
  /\ ReturnedIntent(p).name = event[p].sessionState.intent.name

\* C7, as claimed: "no" or Denied resets whatever the fields hold
C7_NegationAlwaysResets ==
  \A p \in Procs :
    (Done(p) /\ (SaysNo(p) \/ SentConfirmationState(p) = "Denied")) => ResetReturned(p)

\* steps 1 to 3 and the doctor validation let the turn through
NoEarlierRule(p) ==
  /\ Sent(p, "DoctorName") = None \/ SentDoctorValid(p)
  /\ ~ /\ Sent(p, "DoctorName") # None
       /\ Sent(p, "Date") # None
       /\ \/ Sent(p, "Time") = None
          \/ ~TimeListed(p)
          \/ Sent(p, "Name") = None
          \/ Sent(p, "Phone") = None

\* C7, amended: "no" or Denied resets when no earlier step answers the turn
C7_NegationResetsAfterEarlierRules ==
  \A p \in Procs :
    (/\ Done(p)
     /\ NoEarlierRule(p)
     /\ \/ SaysNo(p)
        \/ /\ SentConfirmationState(p) = "Denied"
           /\ ~SaysYes(p)
           /\ ~(FiveSent(p) /\ Sent(p, "Confirmation") = None))
    => ResetReturned(p)

C7_Witness ==
  \E p \in Procs :
    /\ Done(p) /\ FiveSent(p) /\ SaysNo(p) /\ NoEarlierRule(p)
    /\ event[p].invocationSource = "FulfillmentCodeHook"
    /\ ResetReturned(p)

(* C8: the dependency order of elicitation.  ElicitSlot Time is returned    *)
(* only if Doctor and Date are set; ElicitSlot Name or Phone only if        *)
(* Doctor, Date and Time are set and Time is in the availability list the   *)
(* turn computed; ElicitSlot Confirmation only if all five are set.         *)
C8_DependencyOrder ==
  \A p \in Procs :
    /\ Elicits(p, "Time") =>
         /\ Sent(p, "DoctorName") # None /\ Sent(p, "Date") # None
         /\ ReturnedIntent(p).slots.DoctorName # None /\ ReturnedIntent(p).slots.Date # None
    /\ (Elicits(p, "Name") \/ Elicits(p, "Phone")) =>
         /\ Sent(p, "DoctorName") # None /\ Sent(p, "Date") # None /\ Sent(p, "Time") # None
         /\ TimeListed(p)
    /\ Elicits(p, "Confirmation") =>
         /\ FiveSent(p)
         /\ TimeListed(p)

C8_Witness ==
  \E p \in Procs :
    /\ Elicits(p, "Phone")
    /\ Sent(p, "Name") # None
    /\ TimeListed(p)

(* C9: the list get_available_times returns for a doctor and a date holds   *)
(* exactly the times of the slots of that doctor and date whose Status is   *)
(* available at the moment of the scan, each once; never the time of a      *)
(* booked slot; and it is the empty list when there is none.                *)
AllTimes == {schedule_times[n] : n \in 1..Len(schedule_times)} \cup (time_inputs \ {None})

IsAvailable(doctor, date, time) ==
  /\ <<doctor, date \o <<"_">> \o time>> \in DOMAIN schedule_table
  /\ schedule_table[<<doctor, date \o <<"_">> \o time>>] = "available"

ExactlyAvailable(list, doctor, date) ==
  /\ \A n \in 1..Len(list) : IsAvailable(doctor, date, list[n])
  /\ \A time \in AllTimes : IsAvailable(doctor, date, time) => InList(time, list)
  /\ \A m, n \in 1..Len(list) : list[m] = list[n] => m = n
  /\ (\A time \in AllTimes : ~IsAvailable(doctor, date, time)) => list = <<>>

\* C9: the scanned list is exactly the available times of the doctor and date, never a booked one
C9_ExactlyTheAvailableTimes ==
  [][\A p \in Procs :
       (pc[p] = "scan" /\ pc'[p] # "scan") =>
         ExactlyAvailable(available_times'[p], Slot(p, "DoctorName"), Slot(p, "Date"))]_vars

C9_Witness ==
  \E p \in Procs :
    /\ Done(p) /\ needs_scan(intent[p])
    /\ Len(available_times[p]) = 1
    /\ \E time \in AllTimes :
         /\ <<Slot(p, "DoctorName"), Slot(p, "Date") \o <<"_">> \o time>> \in DOMAIN schedule_table
         /\ schedule_table[<<Slot(p, "DoctorName"), Slot(p, "Date") \o <<"_">> \o time>>] = "booked"
         /\ ~InList(time, available_times[p])
    /\ \E k \in DOMAIN schedule_table : k[1] # Slot(p, "DoctorName") /\ schedule_table[k] = "available"

(* C10: re-sending is idempotent.  When an elicitation turn with a Doctor   *)
(* set returned a Doctor and the Date and Time it was sent, the turn that   *)
(* receives the returned state, with the same availability, returns the     *)
(* same directive, message and field values; normalizing the normalized     *)
(* doctor changes nothing, and it is still the doctor first sent.           *)
KeptDoctorDateTime(p) ==
  /\ Done(p)
  /\ Action(p).type = "ElicitSlot"
  /\ Sent(p, "DoctorName") # None
  /\ ReturnedIntent(p).slots.DoctorName # None
  /\ ReturnedIntent(p).slots.Date = Sent(p, "Date")
  /\ ReturnedIntent(p).slots.Time = Sent(p, "Time")

\* C10: the turn that receives the returned state answers as the first turn did
C10_ResendIsIdempotent ==
  \A q \in Procs :
    (/\ replayOf[q] # 0
     /\ Done(q)
     /\ KeptDoctorDateTime(replayOf[q])
     /\ available_times[q] = available_times[replayOf[q]])
    => /\ response[q] = response[replayOf[q]]
       /\ intent[q].slots.DoctorName = ReturnedIntent(replayOf[q]).slots.DoctorName
       /\ SentDoctorValid(replayOf[q]) =>
            lower(intent[q].slots.DoctorName) = lower(Sent(replayOf[q], "DoctorName"))

C10_Witness ==
  \E q \in Procs :
    /\ replayOf[q] # 0 /\ Done(q)
    /\ KeptDoctorDateTime(replayOf[q])
    /\ Sent(replayOf[q], "DoctorName") # ReturnedIntent(replayOf[q]).slots.DoctorName
    /\ Elicits(q, "Time")
    /\ available_times[q] # <<>>
    /\ response[q] = response[replayOf[q]]

----------------------------------------------------------------------------
(* C11: a turn that sends only DoctorName "dr. sarah jones" (Date and       *)
(* every other field unset) stores the canonical "Dr. Sarah Jones" in the   *)
(* returned state and asks for Date, not Time.                              *)
OnlyDoctorSent(p) ==
  /\ Sent(p, "DoctorName") = <<"d", "r", ".", " ", "s", "a", "r", "a", "h", " ", "j", "o", "n", "e", "s">>
  /\ \A n \in DOMAIN no_slots \ {"DoctorName"} : Sent(p, n) = None

\* C11: the doctor-only turn returns ElicitSlot Date with the canonical doctor stored
C11_DoctorThenDateElicited ==
  \A p \in Procs :
    (Done(p) /\ OnlyDoctorSent(p))
    => /\ ReturnedIntent(p).slots.DoctorName = Dr_Sarah_Jones
       /\ Elicits(p, "Date")

\* the turn is neither a denial nor a confirmed fulfillment
PlainDialogTurn(p) ==
  /\ SentConfirmationState(p) # "Denied"
  /\ ~(event[p].invocationSource = "FulfillmentCodeHook" /\ SentConfirmationState(p) = "Confirmed")

(* C11: the doctor-only turn never elicits Time nor any other field but    *)
(* DoctorName; when it is neither a denial nor a confirmed fulfillment it   *)
(* returns Delegate with the canonical doctor stored and nothing else set.  *)
C11_DoctorNormalizedThenDelegated ==
  \A p \in Procs :
    (Done(p) /\ OnlyDoctorSent(p))
    => /\ ~Elicits(p, "Time") /\ ~Elicits(p, "Date")
       /\ PlainDialogTurn(p) =>
            /\ Action(p).type = "Delegate"
            /\ ReturnedIntent(p) =
                 [event[p].sessionState.intent EXCEPT !.slots.DoctorName = Dr_Sarah_Jones]
            /\ raised[p] = NoException

C11_Witness ==
  \E p \in Procs :
    /\ Done(p) /\ OnlyDoctorSent(p) /\ PlainDialogTurn(p)
    /\ event[p].invocationSource = "DialogCodeHook"
    /\ Action(p).type = "Delegate"
    /\ ReturnedIntent(p).slots.DoctorName = Dr_Sarah_Jones
    /\ Sent(p, "DoctorName") # Dr_Sarah_Jones

----------------------------------------------------------------------------
(* C12: when a store call of the turn fails (the scan, the slot update for  *)
(* another reason than its condition, the counter update, the appointment   *)
(* put), the turn ends with Close and the generic apology, not with an      *)
(* elicitation and not with the slot-conflict message.                      *)
StoreCallFailed(p) == raised[p] # NoException

\* C12: a turn in which a store call failed ends with Close and the generic apology
C12_StoreFailureApologizes ==
  \A p \in Procs :
    (Done(p) /\ StoreCallFailed(p))
    => /\ Action(p).type = "Close"
       /\ Text(p) = "Something went wrong. Please try again later."

----------------------------------------------------------------------------
(* C13: the store is written only by the booking step.  A step of a turn    *)
(* whose invocation source is not FulfillmentCodeHook or whose confirmation *)
(* phase is not Confirmed leaves DoctorSchedule, Appointments and the       *)
(* counter unchanged; such a turn never enters the booking calls.           *)
StepOf(p) == pc'[p] # pc[p]

BookingTurn(p) ==
  /\ event[p].invocationSource = "FulfillmentCodeHook"
  /\ SentConfirmationState(p) = "Confirmed"

InBookingStep(p) == pc[p] \in {"update_item", "get_next_sequence", "put_item"}

\* C13: every step of a turn that is not a confirmed fulfillment leaves the three tables unchanged
C13_OnlyBookingStepWrites ==
  [][\A p \in Procs :
       (StepOf(p) /\ ~BookingTurn(p)')
       => /\ UNCHANGED tables
          /\ ~InBookingStep(p)'
          /\ appointment_id'[p] = None]_vars

C13_Witness ==
  \E p \in Procs :
    /\ Done(p) /\ ~BookingTurn(p)
    /\ event[p].invocationSource = "DialogCodeHook"
    /\ SentConfirmationState(p) = "Confirmed"
    /\ FiveSent(p) /\ SentDoctorValid(p) /\ TimeListed(p)
    /\ Sent(p, "Confirmation") = <<"o", "k">>
    /\ Action(p).type = "Delegate"
    /\ IsAvailable(Slot(p, "DoctorName"), Slot(p, "Date"), Slot(p, "Time"))

----------------------------------------------------------------------------
(* C14: under any sequence of lambda_handler turns a slot's status changes  *)
(* only from available to booked: no step changes a booked slot back to     *)
(* available, and no step creates or deletes a slot.                        *)
SlotsKept == DOMAIN schedule_table' = DOMAIN schedule_table

OnlyAvailableToBooked ==
  \A k \in DOMAIN schedule_table \cap DOMAIN schedule_table' :
    schedule_table'[k] # schedule_table[k] =>
      (schedule_table[k] = "available" /\ schedule_table'[k] = "booked")

\* C14: every step keeps the set of slots and changes a status only from available to booked
C14_StatusOnlyAvailableToBooked ==
  [][SlotsKept /\ OnlyAvailableToBooked]_vars

\* a turn booked a slot, and a turn that asked for a slot the schedule does not hold is done
C14_Witness ==
  /\ \E p \in Procs : Done(p) /\ Succeeded(p) /\ schedule_table[slot_key(intent[p])] = "booked"
  /\ \E q \in Procs : Done(q) /\ slot_key(intent[q]) \notin DOMAIN schedule_table
  /\ DOMAIN schedule_table = generated_keys

----------------------------------------------------------------------------
(* The sequence specification: booking turns late in the life of the        *)
(* counter.  The counter starts at the value it has after n earlier         *)
(* bookings, for the numbers n of issued_before; of the n appointments      *)
(* written so far the table holds those whose number is in issued_before    *)
(* (the others are left out: they can only hide an overwrite).              *)

\* the length of a reference number: str(...)[-7:]
reference_digits == 7

\* how many reference numbers were issued before the turns of the model
issued_before == {0, 1, 1000000, 8999998, 9999998, 9999999}

\* the counter record after n calls of get_next_sequence
counter_after(n) ==
  IF n = 0 THEN <<>> ELSE [c \in {counter_name} |-> start + n * incr]

\* the appointment written by the m-th booking
earlier_appointment(m) ==
  appointment_item(
    [slots |-> [booked_slots(CHOOSE k \in generated_keys : TRUE)
                  EXCEPT !.Name = <<"A", "n", "n">>, !.Phone = <<"5", "5", "5">>]],
    sequence_string(counter_after(m)))

\* the sampled appointments of the first n bookings
earlier_appointments(n) ==
  LET ids == {sequence_string(counter_after(m)) : m \in {x \in issued_before : 1 <= x /\ x <= n}}
  IN [id \in ids |->
        earlier_appointment(CHOOSE m \in issued_before :
                              1 <= m /\ m <= n /\ sequence_string(counter_after(m)) = id)]

\* one confirmed fulfillment turn for each slot of the calendar
BookingEvents ==
  { event_of(booked_slots(k), "FulfillmentCodeHook", "Confirmed") : k \in generated_keys }

InitSequence ==
  /\ schedule_table = generate_schedule
  /\ \E n \in issued_before :
       /\ id_counter_table = counter_after(n)
       /\ appointments_table = earlier_appointments(n)
  /\ idle_processes

NextSequence ==
  \E p \in Procs :
    \/ Turn(p, BookingEvents)
    \/ Scan(p)
    \/ UpdateItem(p)
    \/ GetNextSequence(p)
    \/ PutItem(p)

SpecSequence == InitSequence /\ [][NextSequence]_vars

(* C15: reference numbers are never reused.  The first call of             *)
(* get_next_sequence on an absent counter returns "1000001"; the reference  *)
(* string of a newly issued counter value differs from that of every value  *)
(* issued before, so put_item never overwrites an earlier Appointment.      *)
Issues(p) == pc[p] = "get_next_sequence" /\ pc'[p] = "put_item"

Puts(p) == pc[p] = "put_item" /\ pc'[p] = "done"

FirstReference ==
  \A p \in Procs :
    (Issues(p) /\ id_counter_table = <<>>) =>
      appointment_id'[p] = <<"1", "0", "0", "0", "0", "0", "1">>

FreshReference ==
  \A p \in Procs :
    /\ Issues(p) =>
         /\ appointment_id'[p] \notin DOMAIN appointments_table
         /\ \A q \in Procs \ {p} : appointment_id'[p] # appointment_id[q]
         /\ Len(appointment_id'[p]) = reference_digits
    /\ Puts(p) =>
         /\ appointment_id[p] \notin DOMAIN appointments_table
         /\ \A id \in DOMAIN appointments_table : appointments_table'[id] = appointments_table[id]

\* C15: over every counter value, also beyond 10,000,000, no reference string is issued twice
C15_NeverReused == [][FirstReference /\ FreshReference]_vars

\* at most 10^7 reference numbers have been issued after this step
WithinFirstTenMillion ==
  id_counter_table'[counter_name] <= start + 10 ^ reference_digits

(* C15: as long as the counter is at most base + 10,000,000 no reference   *)
(* string is issued twice and no Appointment is overwritten; the first one  *)
(* is "1000001".                                                            *)
C15_NotReusedInFirstTenMillion ==
  [][FirstReference /\ ((\E p \in Procs : Issues(p) \/ Puts(p)) /\ WithinFirstTenMillion => FreshReference)]_vars

\* the counter passed 9,999,999 and the truncated numbers 9999999 and 0000000 were both written
C15_Witness ==
  /\ id_counter_table = counter_after(9000000)
  /\ <<"9", "9", "9", "9", "9", "9", "9">> \in DOMAIN appointments_table
  /\ <<"0", "0", "0", "0", "0", "0", "0">> \in DOMAIN appointments_table
  /\ <<"1", "0", "0", "0", "0", "0", "1">> \in DOMAIN appointments_table

----------------------------------------------------------------------------
(* C16: commit ordering.  In a booking turn the slot transition comes       *)
(* first, then the sequence number, then the Appointment; so in every       *)
(* reachable state, between these steps and after a failure between them,   *)
(* every Appointment refers to a booked slot and the counter has advanced   *)
(* at least as many times as there are Appointment records.                 *)
AppointmentSlot(a) == <<a.DoctorName, date_time_key(a.Date, a.Time)>>

CounterAdvances ==
  IF id_counter_table = <<>> THEN 0 ELSE (id_counter_table[counter_name] - start) \div incr

SlotBooked(k) == k \in DOMAIN schedule_table /\ schedule_table[k] = "booked"

\* C16: every Appointment has a booked slot, the counter covers the Appointments, the steps are in order
C16_CommitOrder ==
  /\ \A id \in DOMAIN appointments_table : SlotBooked(AppointmentSlot(appointments_table[id]))
  /\ Cardinality(DOMAIN appointments_table) <= CounterAdvances
  /\ \A p \in Procs :
       /\ pc[p] = "get_next_sequence" =>
            SlotBooked(slot_key(intent[p])) /\ appointment_id[p] = None
       /\ pc[p] = "put_item" =>
            /\ SlotBooked(slot_key(intent[p]))
            /\ appointment_id[p] # None
            /\ appointment_id[p] \notin DOMAIN appointments_table

\* one turn wrote its Appointment, another failed between the slot update and the put
C16_Witness ==
  \E p, q \in Procs :
    /\ Done(p) /\ raised[p].call \in {"get_next_sequence", "put_item"}
    /\ SlotBooked(slot_key(intent[p]))
    /\ \A id \in DOMAIN appointments_table :
         AppointmentSlot(appointments_table[id]) # slot_key(intent[p])
    /\ Done(q) /\ raised[q] = NoException /\ appointment_id[q] \in DOMAIN appointments_table
    /\ Cardinality(DOMAIN appointments_table) < CounterAdvances

----------------------------------------------------------------------------
(* C17: when Doctor, Date and Time are known and the Time is not in the     *)
(* availability list recomputed in this turn, the turn returns ElicitSlot   *)
(* Time with the current list, and the Time it was sent is discarded: Time  *)
(* is unset in the returned state.                                          *)
TimeNotListed(p) ==
  /\ SentDoctorValid(p)
  /\ Sent(p, "Date") # None /\ Sent(p, "Time") # None
  /\ ~TimeListed(p)

\* C17: the turn whose Time is not in the list elicits Time with the list and returns Time unset
C17_RejectedTimeDiscarded ==
  \A p \in Procs :
    (Done(p) /\ TimeNotListed(p))
    => /\ Elicits(p, "Time")
       /\ InList(join(<<",", " ">>, available_times[p]), Args(p))
       /\ ReturnedIntent(p).slots.Time = None

----------------------------------------------------------------------------
(* C18: with a valid Doctor and a Date known, Time unset and no slot of     *)
(* that doctor available on that date, the turn returns ElicitSlot Date     *)
(* with Date unset and every other field (the normalized DoctorName         *)
(* included) as it was, and it changes nothing in the store.                *)
NoSlotAvailable(p) ==
  \A time \in AllTimes : ~IsAvailable(Slot(p, "DoctorName"), Slot(p, "Date"), time)

\* the state returned: Date cleared, the doctor canonical, the rest as sent
DateClearedOnly(p) ==
  /\ ReturnedIntent(p).slots.Date = None
  /\ InList(ReturnedIntent(p).slots.DoctorName, VALID_DOCTORS)
  /\ lower(ReturnedIntent(p).slots.DoctorName) = lower(Sent(p, "DoctorName"))
  /\ \A n \in {"Time", "Name", "Phone", "Confirmation"} : ReturnedIntent(p).slots[n] = Sent(p, n)
  /\ ReturnedIntent(p) =
       [event[p].sessionState.intent EXCEPT !.slots = ReturnedIntent(p).slots]

\* C18: the scan that finds no available slot ends the turn with ElicitSlot Date, Date cleared, store unchanged
C18_NoAvailabilityClearsDate ==
  [][\A p \in Procs :
       (/\ pc[p] = "scan" /\ StepOf(p)
        /\ Sent(p, "Date") # None /\ Sent(p, "Time") = None
        /\ NoSlotAvailable(p))
       => /\ UNCHANGED tables
          /\ Elicits(p, "Date")'
          /\ DateClearedOnly(p)']_vars

C18_Witness ==
  \E p \in Procs :
    /\ Elicits(p, "Date")
    /\ Sent(p, "DoctorName") # Dr_Sarah_Jones /\ Slot(p, "DoctorName") = Dr_Sarah_Jones
    /\ Sent(p, "Date") # None /\ Sent(p, "Name") # None /\ Sent(p, "Confirmation") # None
    /\ DateClearedOnly(p)
    /\ \E time \in AllTimes : SlotBooked(<<Dr_Sarah_Jones, date_time_key(Sent(p, "Date"), time)>>)
    /\ NoSlotAvailable(p)
    /\ \E k \in DOMAIN schedule_table : schedule_table[k] = "available"

----------------------------------------------------------------------------
(* C19: rule priority.  A turn with valid Doctor, Date, an available Time,  *)
(* Name and Phone whose Confirmation is "yes" in any letter case returns    *)
(* Delegate with the state unchanged and writes nothing to the store,       *)
(* whatever its invocation source and confirmation phase; the booking step  *)
(* is reached only in turns where the Confirmation rule did not match.      *)
AffirmedTurn(p) ==
  /\ FiveSent(p) /\ SentDoctorValid(p)
  /\ TimeListed(p)
  /\ SaysYes(p)

\* the intent received, with the doctor in the canonical form the validation stored
StateAsReceived(p) ==
  /\ \A n \in DOMAIN no_slots \ {"DoctorName"} : ReturnedIntent(p).slots[n] = Sent(p, n)
  /\ ReturnedIntent(p).slots.DoctorName = canonical_doctor(Sent(p, "DoctorName"))
  /\ ReturnedIntent(p) =
       [event[p].sessionState.intent EXCEPT !.slots = ReturnedIntent(p).slots]

\* C19: the turn that says yes returns Delegate, its state unchanged, and never steps into the booking
C19_YesDelegatesBeforeBooking ==
  [][\A p \in Procs :
       /\ (StepOf(p) /\ AffirmedTurn(p)' /\ pc[p] = "scan")
          => /\ UNCHANGED tables
             /\ Done(p)' /\ Action(p)'.type = "Delegate"
             /\ StateAsReceived(p)'
       /\ (StepOf(p) /\ InBookingStep(p)')
          => ~SaysYes(p)' /\ ~SaysNo(p)']_vars

C19_Witness ==
  \E p \in Procs :
    /\ Done(p) /\ AffirmedTurn(p)
    /\ Sent(p, "Confirmation") = <<"Y", "E", "S">>
    /\ BookingTurn(p)
    /\ Action(p).type = "Delegate"
    /\ StateAsReceived(p)
    /\ Sent(p, "DoctorName") # Dr_Sarah_Jones
    /\ IsAvailable(Slot(p, "DoctorName"), Slot(p, "Date"), Slot(p, "Time"))

----------------------------------------------------------------------------
(* C20: schedule regeneration beside bookings.  generate_schedule writes    *)
(* every generated slot with Status available whatever the slot was, and    *)
(* no step of the script touches Appointments; so a slot that was booked    *)
(* is available again while its Appointment still exists, and a later turn  *)
(* books it again and writes a second Appointment for it.                   *)
ScriptSteps == script' # script

PutsSlot == ScriptSteps /\ script.pc # "clear" /\ script'.pc # "clear"

\* C20: each put of generate_schedule makes its slot available; the script leaves Appointments alone
C20_RegenerationResetsSlots ==
  [][ScriptSteps =>
       /\ UNCHANGED <<appointments_table, id_counter_table>>
       /\ PutsSlot =>
            /\ Head(remaining_puts) \in DOMAIN schedule_table'
            /\ schedule_table'[Head(remaining_puts)] = "available"
            /\ \A k \in DOMAIN schedule_table \ {Head(remaining_puts)} :
                 k \in DOMAIN schedule_table' /\ schedule_table'[k] = schedule_table[k]
       /\ (PutsSlot /\ script' = script_done) =>
            {generation_order[n] : n \in 1..Len(generation_order)} = generated_keys]_vars

\* a slot booked twice: after clear_schedule and generate_schedule it has two Appointments
C20_Witness ==
  \E k \in generated_keys :
    /\ Cardinality(AppointmentsFor(k)) = 2
    /\ SlotBooked(k)
    /\ script = script_done
    /\ \E j \in generated_keys \ {k} :
         /\ j \in DOMAIN schedule_table /\ schedule_table[j] = "available"
         /\ Cardinality(AppointmentsFor(j)) = 0

====
